---------------------------- MODULE Spec2Model ----------------------------
(***************************************************************************)
(* certmanager: the issuance orchestrator (CertAuthority.obtainCert and   *)
(* createExistingResponse, certauthority.py) over the KeyStore contract   *)
(* and its two backends (SqliteKeyStore, FilesystemKeyStore, db.py).      *)
(*                                                                         *)
(* The protocol client (Acme, Order, Challenge), the crypto primitives    *)
(* and the challenge publication store are external collaborators: their  *)
(* answers are inputs drawn from small sets.                              *)
(***************************************************************************)
EXTENDS Integers, Sequences, FiniteSets, TLC

(***************************************************************************)
(* Bounds of the model.                                                    *)
(***************************************************************************)
\* longest host list handed to obtainCert
MaxHosts == 2
\* obtainCert calls made by one caller in one behaviour
MaxCalls == 2
\* nested obtain_cert frames before the interpreter's recursion limit ends
\* the call with RecursionError (the interpreter's own limit is far larger)
MaxDepth == 6
\* direct KeyStore API calls in one behaviour of StoreSpec
MaxOps == 3
\* stored artifacts damaged from outside in one behaviour
MaxGarbled == 1
\* KeyStore objects constructed over one storage in one behaviour
MaxConstructions == 3

Domains == {"a.com", "b.com"}
Procs == {"p1", "p2"}

(***************************************************************************)
(* Program constants of the two poll loops.                                *)
(***************************************************************************)
\* end = time.time() + 40
PollTimeout == 40
\* counter > 4
PollRounds == 4
\* time.sleep(3)
PollPause == 3
\* def obtain_cert(count=5)
DefaultCount == 5

Min(a, b) == IF a < b THEN a ELSE b
Range(s) == {s[i] : i \in 1..Len(s)}

IsInjective(s) == \A i, j \in 1..Len(s) : s[i] = s[j] => i = j

\* the host lists handed to obtainCert: every list of distinct domains of
\* length 1..MaxHosts, and one list that names a domain twice
HostLists ==
    UNION {{s \in [1..n -> Domains] : IsInjective(s)} : n \in 1..MaxHosts}
        \cup {<<"a.com", "a.com">>}

(***************************************************************************)
(* Values.  A key or a certificate is a tagged pair; stored bytes are an   *)
(* encoding tag with the value encoded.  Decoding checks the encoding and  *)
(* the kind of object, and yields ValueError on anything else, as the      *)
(* cryptography loaders do.                                                *)
(***************************************************************************)
\* A value carries the identity of what made it: the caller and the number
\* of its call for a key generated or a certificate issued in obtainCert.
NoOrigin == <<"", 0>>
\* gen_key_rsa: the n-th RSA key generated for the account, counted from 0
RsaKey(n) == <<"rsa", <<"account", n>>>>
AccountKey == <<"rsa", <<"account", 0>>>>
EcKey(origin) == <<"ec", origin>>
Cert(origin) == <<"cert", origin>>
ValueError == <<"ValueError", NoOrigin>>
NoValue == <<"None", NoOrigin>>

IsKey(v) == v[1] \in {"ec", "rsa"}
IsCert(v) == v[1] = "cert"

NoFile == <<"nofile", NoValue>>
Garbage == <<"garbage", NoValue>>

key_to_pem(k) == <<"PEM", k>>
key_to_der(k) == <<"DER", k>>
cert_to_pem(c) == <<"PEM", c>>
cert_to_der(c) == <<"DER", c>>

key_from_pem(b) == IF b[1] = "PEM" /\ IsKey(b[2]) THEN b[2] ELSE ValueError
key_from_der(b) == IF b[1] = "DER" /\ IsKey(b[2]) THEN b[2] ELSE ValueError
cert_from_pem(b) == IF b[1] = "PEM" /\ IsCert(b[2]) THEN b[2] ELSE ValueError
cert_from_der(b) == IF b[1] = "DER" /\ IsCert(b[2]) THEN b[2] ELSE ValueError
\* bytes.decode("utf-8") of a PEM encoding
pem_text(b) == <<"PEM-utf8", b[2]>>

(***************************************************************************)
(* get_cert outcomes.                                                      *)
(***************************************************************************)
None == [tag |-> "absent"]
Raised == [tag |-> "ValueError"]
Present(id, key, cert) == [tag |-> "present", id |-> id, key |-> key, cert |-> cert]

(***************************************************************************)
(* SqliteKeyStore.  Tables are sequences; a row's id is its index          *)
(* (AUTOINCREMENT, nothing is ever deleted).                               *)
(***************************************************************************)
AcmeKeyNameSql == "ACME Account Key"
AcmeKeyNameFs == "acme_account"

SqliteInit ==
    [private_keys |-> <<[name |-> AcmeKeyNameSql, content |-> key_to_der(AccountKey)]>>,
     certificates |-> <<>>,
     ssl_domains |-> <<>>]

\* the id save_key returns: cur.lastrowid
SqliteNextKeyId(d) == Len(d.private_keys) + 1

SqliteSaveKey(d, key, name) ==
    [d EXCEPT !.private_keys = Append(@, [name |-> name, content |-> key_to_der(key)])]

\* the id save_cert returns
SqliteNextCertId(d) == Len(d.certificates) + 1

\* faulty variant: the certificate is stored, its domains are not
SqliteSaveCertNoDomains(d, private_key_id, cert, domains) ==
    [d EXCEPT !.certificates =
                  Append(@, [priv_id |-> private_key_id, content |-> cert_to_der(cert)])]

SqliteSaveCert(d, private_key_id, cert, domains) ==
    LET cert_id == SqliteNextCertId(d)
        rows == [i \in 1..Len(domains) |->
                    [domain |-> domains[i], certificate_id |-> cert_id]]
    IN  [d EXCEPT !.certificates =
                      Append(@, [priv_id |-> private_key_id, content |-> cert_to_der(cert)]),
                  !.ssl_domains = @ \o rows]

\* the rows of ssl_domains JOIN certificates JOIN private_keys for a domain
SqliteJoinRows(d, domain) ==
    {i \in 1..Len(d.ssl_domains) :
        /\ d.ssl_domains[i].domain = domain
        /\ d.ssl_domains[i].certificate_id \in 1..Len(d.certificates)
        /\ d.certificates[d.ssl_domains[i].certificate_id].priv_id
               \in 1..Len(d.private_keys)}

SqliteDecodeRow(d, i) ==
    LET cid == d.ssl_domains[i].certificate_id
        c == d.certificates[cid]
        p == d.private_keys[c.priv_id]
        key == key_from_der(p.content)
        cert == cert_from_der(c.content)
    IN  IF key = ValueError \/ cert = ValueError THEN Raised
        ELSE Present(cid, key, cert)

\* fetchone() of a SELECT with no ORDER BY: SQL leaves open which of the
\* matching rows comes first (SQLite's rowid scan yields the oldest), so
\* the outcome is any one of them.  Decoding is not guarded by a try.
SqliteGetCert(d, domain) ==
    LET rows == SqliteJoinRows(d, domain)
    IN  IF rows = {} THEN {None}
        ELSE {SqliteDecodeRow(d, i) : i \in rows}

(***************************************************************************)
(* FilesystemKeyStore.  keys/<name>.key and certs/<name>.crt.              *)
(***************************************************************************)
FileNames == Domains \cup {AcmeKeyNameFs}

FsInit ==
    [keys |-> [n \in FileNames |->
                  IF n = AcmeKeyNameFs THEN key_to_pem(AccountKey) ELSE NoFile],
     certs |-> [n \in FileNames |-> NoFile]]

FsSaveKey(f, key, name) == [f EXCEPT !.keys[name] = key_to_pem(key)]

RECURSIVE FsSaveCertLoop(_, _, _, _, _)
\* for domain in domains: copy the key unless the domain is the key's own
\* name, then write the certificate
FsSaveCertLoop(f, key_content, private_key_id, cert, domains) ==
    IF domains = <<>> THEN f
    ELSE LET domain == Head(domains)
             f1 == IF domain # private_key_id
                   THEN [f EXCEPT !.keys[domain] = key_content]
                   ELSE f
             f2 == [f1 EXCEPT !.certs[domain] = cert_to_pem(cert)]
         IN  FsSaveCertLoop(f2, key_content, private_key_id, cert, Tail(domains))

\* open(key_path, "rb") raises FileNotFoundError when the key file is missing
FsSaveCertFails(f, private_key_id) == f.keys[private_key_id] = NoFile

FsSaveCert(f, private_key_id, cert, domains) ==
    FsSaveCertLoop(f, f.keys[private_key_id], private_key_id, cert, domains)

FsGetCert(f, domain) ==
    LET key == IF f.keys[domain] # NoFile
               THEN (LET k == key_from_pem(f.keys[domain])
                     IN  IF k = ValueError THEN NoValue ELSE k)
               ELSE NoValue
        cert == IF f.certs[domain] # NoFile
                THEN (LET c == cert_from_pem(f.certs[domain])
                      IN  IF c = ValueError THEN NoValue ELSE c)
                ELSE NoValue
    IN  IF cert = NoValue \/ key = NoValue THEN {None}
        ELSE {Present(domain, key, cert)}


(***************************************************************************)
(* Generic KeyStore dispatch on the backend the orchestrator was built     *)
(* with.  A store state is the pair of both backends' storage; only the    *)
(* selected one is ever touched.                                           *)
(***************************************************************************)
Backends == {"sqlite", "filesystem"}

get_cert(b, d, f, domain) ==
    IF b = "sqlite" THEN SqliteGetCert(d, domain) ELSE FsGetCert(f, domain)

(***************************************************************************)
(* certauthority.py: dictionaries keep insertion order; a dictionary is a  *)
(* sequence of [k, v] entries with distinct keys.                          *)
(***************************************************************************)
DictKeys(dict) == {dict[i].k : i \in 1..Len(dict)}

DictGet(dict, key) == dict[CHOOSE i \in 1..Len(dict) : dict[i].k = key].v

DictSet(dict, key, val) ==
    IF key \in DictKeys(dict)
    THEN [i \in 1..Len(dict) |-> IF dict[i].k = key THEN [k |-> key, v |-> val] ELSE dict[i]]
    ELSE Append(dict, [k |-> key, v |-> val])

RECURSIVE ExistingFrom(_, _, _)
\* {c[0]: c[1] for c in [(h, get_cert(h)) for h in host] if c[1] is not None}
\* with found[i] the outcome of get_cert(host[i])
ExistingFrom(host, found, dict) ==
    IF host = <<>> THEN dict
    ELSE ExistingFrom(Tail(host), Tail(found),
                      IF Head(found) # None
                      THEN DictSet(dict, Head(host), Head(found))
                      ELSE dict)

\* faulty variant: every requested host is ordered again
MissingAll(host, existing) == host

\* [h for h in host if h not in existing]
MissingFrom(host, existing) ==
    LET absent(h) == h \notin DictKeys(existing)
    IN  SelectSeq(host, absent)

IssuedCert(key, cert, hosts) == [key |-> key, cert |-> cert, hosts |-> hosts]

RECURSIVE CertMapUngrouped(_, _)
\* faulty variant: an id seen before starts its entry afresh
CertMapUngrouped(existing, certMap) ==
    IF existing = <<>> THEN certMap
    ELSE LET h == Head(existing).k
             rec == Head(existing).v
         IN  CertMapUngrouped(Tail(existing),
                 DictSet(certMap, rec.id,
                         [hosts |-> <<h>>,
                          key |-> pem_text(key_to_pem(rec.key)),
                          cert |-> pem_text(cert_to_pem(rec.cert))]))

RECURSIVE CertMapFrom(_, _)
\* the first loop of createExistingResponse: group the hosts by id, the
\* key and certificate text taken from the first host of each id
CertMapFrom(existing, certMap) ==
    IF existing = <<>> THEN certMap
    ELSE LET h == Head(existing).k
             rec == Head(existing).v
         IN  CertMapFrom(Tail(existing),
                 IF rec.id \in DictKeys(certMap)
                 THEN DictSet(certMap, rec.id,
                              [DictGet(certMap, rec.id) EXCEPT !.hosts = Append(@, h)])
                 ELSE DictSet(certMap, rec.id,
                              [hosts |-> <<h>>,
                               key |-> pem_text(key_to_pem(rec.key)),
                               cert |-> pem_text(cert_to_pem(rec.cert))]))

CertificateResponse(certs, issued_certs) == [existing |-> certs, issued |-> issued_certs]

createExistingResponse(existing, issued_certs) ==
    LET certMap == CertMapFrom(existing, <<>>)
        certs == [i \in 1..Len(certMap) |->
                     IssuedCert(certMap[i].v.key, certMap[i].v.cert, certMap[i].v.hosts)]
    IN  CertificateResponse(certs, issued_certs)

\* crypto.create_csr(private_key, missing[0], missing[1:])
create_csr(private_key, primary, alt) ==
    [key |-> private_key, subject |-> primary, alt_names |-> alt]


(***************************************************************************)
(* State.                                                                  *)
(***************************************************************************)
VARIABLES
    backend,          \* which KeyStore the CertAuthority was built with
    db,               \* SqliteKeyStore: the three tables
    fs,               \* FilesystemKeyStore: the two directories
    challengesStore,  \* ChallengeStore: token -> authorization key, as pairs
    call,             \* per caller: the frame of its obtainCert call
    calls,            \* per caller: obtainCert calls started
    garbled,          \* stored artifacts damaged from outside so far
    api               \* StoreSpec: the direct KeyStore calls made so far

vars == <<backend, db, fs, challengesStore, call, calls, garbled, api>>

(***************************************************************************)
(* External collaborators.                                                 *)
(***************************************************************************)
\* order.status after a refresh
OrderStatuses == {"pending", "ready", "processing", "valid", "invalid"}

\* the first component of what query_progress returns
QueryResults == {"True", "False", "None"}

\* faulty variant: only a False keeps a challenge pending
OnlyFalsePending(status) == status = "False"

\* status != True
NotStrictlyTrue(status) == status # "True"

\* time that passes in one polling round besides the pause: none, or a
\* stall as long as the whole budget
Latencies == {0, PollTimeout}

\* the clock is only ever compared with the deadline, so it stops counting
\* once past it
Tick(clock, dt) == Min(clock + dt, PollTimeout + 1)

\* the i-th challenge of an order
Token(order_no, i) == <<"token", order_no, i>>
AuthorizationKey(order_no, i) == <<"auth", order_no, i>>

\* the operations a call can perform on the protocol client, the challenge
\* publication store and the KeyStore's writing half
Operations ==
    {"create_order", "publish", "verify", "query", "finalize", "refresh",
     "get_certificate", "save_key", "save_cert"}

NoResponse == [existing |-> <<>>, issued |-> <<>>]

IdleFrame ==
    [pc |-> "idle",
     host |-> <<>>,
     existing |-> <<>>,
     missing |-> <<>>,
     private_key |-> NoValue,
     order_no |-> NoOrigin,
     order_domains |-> <<>>, \* the domains the order was created for
     challenges |-> 0,      \* how many order.remaining_challenges() returned
     published |-> 0,       \* challenges written to the publication store so far
     verified |-> 0,        \* challenges whose verify() has been called so far
     source |-> <<>>,
     answers |-> <<>>,      \* what query_progress returned in the last round, per challenge asked
     counter |-> 0,
     asked |-> 0,           \* query rounds a pending challenge has had, counted up to PollRounds + 1
     parity |-> 0,          \* rounds run so far, modulo 2: a round is always a step
     clock |-> 0,           \* time since `end` was computed
     poll |-> "none",       \* none | polling | confirmed | timeout
     csr |-> [key |-> NoValue, subject |-> "", alt_names |-> <<>>],
     count |-> 0,
     depth |-> 0,           \* nested obtain_cert frames
     finalizes |-> 0,       \* order.finalize() calls so far
     refreshes |-> 0,       \* order.refresh() calls so far
     status |-> "none",
     certificate |-> NoValue,
     key_id |-> <<"none", 0, "">>,
     response |-> NoResponse,
     result |-> "none",     \* none | response | error | ValueError | RecursionError
     store0 |-> [db |-> SqliteInit, fs |-> FsInit],  \* the store when the call began
     store1 |-> [db |-> SqliteInit, fs |-> FsInit],  \* the store when the call returned its response
     log |-> {}]            \* the operations the call has performed so far

RowId(n) == <<"row", n, "">>
NameId(name) == <<"name", 0, name>>

NoApi ==
    [ops |-> 0,
     last |-> "none",        \* none | save_key | save_cert
     key |-> NoValue,        \* the key of the last save_key
     key_id |-> <<"none", 0, "">>,  \* the id it returned
     roundtrip |-> FALSE,    \* the last save_cert used that id, right after it
     cert |-> NoValue,       \* the certificate of the last save_cert
     domains |-> <<>>,       \* its domain list
     latest |-> [d \in Domains |-> NoValue],  \* per domain, the last certificate saved for it
     account_key |-> AccountKey,  \* the account_key attribute of the KeyStore object
     constructions |-> 1,    \* KeyStore objects constructed over the storage
     generated |-> 1]        \* account keys generated so far

Init ==
    /\ backend \in Backends
    /\ db = SqliteInit
    /\ fs = FsInit
    /\ challengesStore = {}
    /\ call = [p \in Procs |-> IdleFrame]
    /\ calls = [p \in Procs |-> 0]
    /\ garbled = 0
    /\ api = NoApi

Finished(p) == call[p].pc \in {"idle", "returned", "failed", "raised"}

Bump(log, operation) == log \cup {operation}


(***************************************************************************)
(* obtainCert, lines 30-37 and 88-89: the lookups, the partition, and the  *)
(* return when nothing is missing.                                         *)
(***************************************************************************)
\* the possible outcomes of [get_cert(h) for h in host]
Lookups(host) ==
    {found \in [1..Len(host) -> UNION {get_cert(backend, db, fs, host[i]) : i \in 1..Len(host)}] :
        \A i \in 1..Len(host) : found[i] \in get_cert(backend, db, fs, host[i])}

\* faulty variant: the call never returns early
NeverNothingMissing(missing) == FALSE

\* if len(missing) > 0 ... else
NothingMissing(missing) == Len(missing) = 0

ObtainCert(p, host) ==
    /\ Finished(p)
    /\ calls[p] < MaxCalls
    /\ calls' = [calls EXCEPT ![p] = @ + 1]
    /\ \E found \in Lookups(host) :
          LET existing == ExistingFrom(host, found, <<>>)
              missing == MissingFrom(host, existing)
              frame == [IdleFrame EXCEPT !.host = host,
                                         !.store0 = [db |-> db, fs |-> fs]]
          IN  IF \E i \in 1..Len(host) : found[i] = Raised
              THEN call' = [call EXCEPT ![p] =
                               [frame EXCEPT !.pc = "raised", !.result = "ValueError"]]
              ELSE IF NothingMissing(missing)
              THEN call' = [call EXCEPT ![p] =
                               [frame EXCEPT !.pc = "returned",
                                             !.store1 = [db |-> db, fs |-> fs],
                                             !.existing = existing,
                                             !.result = "response",
                                             !.response = createExistingResponse(existing, <<>>)]]
              ELSE call' = [call EXCEPT ![p] =
                               [frame EXCEPT !.pc = "create_order",
                                             !.existing = existing,
                                             !.missing = missing,
                                             !.private_key = EcKey(<<p, calls[p] + 1>>)]]
    /\ UNCHANGED <<backend, db, fs, challengesStore, garbled, api>>

(***************************************************************************)
(* Lines 38-44: the order.  None from the protocol client raises.          *)
(***************************************************************************)
\* An order holds one authorization per identifier, and an authorization
\* that is not yet valid leaves one challenge outstanding: the order of n
\* distinct domains has 0..n remaining challenges.
MostChallenges(missing) == Cardinality(Range(missing))

CreateOrder(p) ==
    /\ call[p].pc = "create_order"
    /\ \E n \in -1..MostChallenges(call[p].missing) :
          \* -1: create_authorized_order returned no order
          IF n >= 0
          THEN call' = [call EXCEPT ![p] =
                           [@ EXCEPT !.pc = "publish",
                                     !.order_no = <<p, calls[p]>>,
                                     !.order_domains = call[p].missing,
                                     !.challenges = n,
                                     !.log = Bump(@, "create_order")]]
          ELSE call' = [call EXCEPT ![p] =
                           [@ EXCEPT !.pc = "raised",
                                     !.result = "ValueError",
                                     !.log = Bump(@, "create_order")]]
    /\ UNCHANGED <<backend, db, fs, challengesStore, calls, garbled, api>>

(***************************************************************************)
(* Lines 45-49: publish one challenge, then ask for its verification.      *)
(***************************************************************************)
\* self.challengesStore[c.token] = c.authorization_key
Publish(p) ==
    /\ call[p].pc = "publish"
    /\ call[p].published < call[p].challenges
    /\ call[p].verified = call[p].published
    /\ LET c == call[p].published + 1
       IN  /\ challengesStore' = challengesStore \cup
                  {<<Token(call[p].order_no, c), AuthorizationKey(call[p].order_no, c)>>}
           /\ call' = [call EXCEPT ![p] =
                          [@ EXCEPT !.published = c,
                                    !.log = Bump(@, "publish")]]
    /\ UNCHANGED <<backend, db, fs, calls, garbled, api>>

\* c.verify()
Verify(p) ==
    /\ call[p].pc = "publish"
    /\ call[p].verified < call[p].published
    /\ call' = [call EXCEPT ![p] =
                   [@ EXCEPT !.verified = @ + 1,
                             !.log = Bump(@, "verify")]]
    /\ UNCHANGED <<backend, db, fs, challengesStore, calls, garbled, api>>

\* faulty variant: the poll may start before the for loop is through
ChallengesSkipped(f) == TRUE

\* `for c in challenges` has run its body for every challenge
ChallengesDone(f) == f.verified = f.challenges

(***************************************************************************)
(* Lines 51-54: the deadline, the pending list, the round counter.         *)
(***************************************************************************)
StartPoll(p) ==
    /\ call[p].pc = "publish"
    /\ ChallengesDone(call[p])
    /\ call' = [call EXCEPT ![p] =
                   [@ EXCEPT !.pc = "poll",
                             !.clock = 0,
                             !.source = [i \in 1..call[p].challenges |-> i],
                             !.counter = 1,
                             !.asked = 0,
                             !.parity = 0,
                             !.poll = "polling"]]
    /\ UNCHANGED <<backend, db, fs, challengesStore, calls, garbled, api>>

(***************************************************************************)
(* Lines 55-67: one pass of the while loop.                                *)
(***************************************************************************)
\* faulty variant: the deadline alone ends the loop
DeadlineOnly(clock, counter) == clock > PollTimeout

\* if time.time() > end and counter > 4
PollTimedOut(clock, counter) == clock > PollTimeout /\ counter > PollRounds

\* faulty variant: the loop body is never entered
LoopNeverEntered(source) == FALSE

\* while len(source) > 0
SourcePending(source) == Len(source) > 0

\* time.sleep(3), taken only when a challenge is left pending
PauseAfterRound(sink) == IF Len(sink) > 0 THEN PollPause ELSE 0

\* faulty variant: the round counter is never advanced
CounterStuck(counter) == counter

\* counter + 1
NextCounter(counter) == counter + 1

PollRound(p) ==
    /\ call[p].pc = "poll"
    /\ LET f == call[p]
       IN  IF SourcePending(f.source)
           THEN IF PollTimedOut(f.clock, f.counter)
                THEN call' = [call EXCEPT ![p] =
                                 [@ EXCEPT !.pc = "finalize", !.poll = "timeout"]]
                ELSE \E latency \in Latencies, status \in [Range(f.source) -> QueryResults] :
                        LET pending(c) == NotStrictlyTrue(status[c])
                            sink == SelectSeq(f.source, pending)
                        IN  call' = [call EXCEPT ![p] =
                                        [@ EXCEPT !.source = sink,
                                                  !.answers = status,
                                                  !.asked = Min(@ + 1, PollRounds + 1),
                                                  !.parity = 1 - @,
                                                  !.counter = NextCounter(f.counter),
                                                  !.clock = Tick(f.clock, latency + PauseAfterRound(sink)),
                                                  !.log = Bump(@, "query")]]
           ELSE call' = [call EXCEPT ![p] =
                            [@ EXCEPT !.pc = "finalize", !.poll = "confirmed"]]
    /\ UNCHANGED <<backend, db, fs, challengesStore, calls, garbled, api>>

(***************************************************************************)
(* Lines 68-69 and 87: the CSR, finalize, and the first obtain_cert().     *)
(***************************************************************************)
Finalize(p) ==
    /\ call[p].pc = "finalize"
    /\ call' = [call EXCEPT ![p] =
                   [@ EXCEPT !.pc = "validity",
                             \* the loop's locals are not read again
                             !.source = <<>>,
                             !.answers = <<>>,
                             !.counter = 0,
                             !.asked = 0,
                             !.parity = 0,
                             !.clock = 0,
                             !.csr = create_csr(call[p].private_key, Head(call[p].missing),
                                               Tail(call[p].missing)),
                             !.count = DefaultCount,
                             !.depth = 1,
                             !.finalizes = @ + 1,
                             !.log = Bump(@, "finalize")]]
    /\ UNCHANGED <<backend, db, fs, challengesStore, calls, garbled, api>>

(***************************************************************************)
(* Lines 71-75 and 81-85: one obtain_cert frame up to its branch.          *)
(***************************************************************************)
\* return obtain_cert(): the retry's count argument
RetryCount(count) == DefaultCount

\* if count == 0
RetriesExhausted(count) == count = 0

\* faulty variant: an order that is "ready" is taken for a valid one
ReadyCountsAsValid(status) == status \in {"valid", "ready"}

\* if order.status == "valid"
CertificateReady(status) == status = "valid"

\* faulty variant: every status but "valid" is polled again
NotYetValid(status) == status # "valid"

\* elif order.status == "processing"
StillProcessing(status) == status = "processing"

\* faulty variant: a failing call still reports what the lookups resolved
PartialResponse(existing) == createExistingResponse(existing, <<>>)

\* return None, error: no response object
FailedResponse(existing) == NoResponse

ValidityPoll(p) ==
    /\ call[p].pc = "validity"
    /\ \E status \in OrderStatuses :
          LET f == [call[p] EXCEPT !.status = status, !.refreshes = @ + 1,
                                   !.log = Bump(@, "refresh")]
          IN  IF CertificateReady(status)
              THEN call' = [call EXCEPT ![p] =
                               [f EXCEPT !.pc = "save_key",
                                         !.certificate = Cert(f.order_no),
                                         !.log = Bump(@, "get_certificate")]]
              ELSE IF StillProcessing(status)
              THEN IF RetriesExhausted(f.count)
                   THEN call' = [call EXCEPT ![p] =
                                    [f EXCEPT !.pc = "failed", !.result = "error",
                                              !.response = FailedResponse(f.existing)]]
                   ELSE IF f.depth >= MaxDepth
                   THEN call' = [call EXCEPT ![p] =
                                    [f EXCEPT !.pc = "raised", !.result = "RecursionError"]]
                   ELSE call' = [call EXCEPT ![p] =
                                    [f EXCEPT !.count = RetryCount(f.count),
                                              !.depth = @ + 1]]
              ELSE call' = [call EXCEPT ![p] =
                               [f EXCEPT !.pc = "failed", !.result = "error",
                                         !.response = FailedResponse(f.existing)]]
    /\ UNCHANGED <<backend, db, fs, challengesStore, calls, garbled, api>>

(***************************************************************************)
(* Line 76: key_store.save_key(private_key, missing[0]).                   *)
(***************************************************************************)
SaveKey(p) ==
    /\ call[p].pc = "save_key"
    /\ LET f == call[p]
           name == Head(f.missing)
       IN  IF backend = "sqlite"
           THEN /\ db' = SqliteSaveKey(db, f.private_key, name)
                /\ fs' = fs
                /\ call' = [call EXCEPT ![p] =
                               [@ EXCEPT !.pc = "save_cert",
                                         !.key_id = RowId(SqliteNextKeyId(db)),
                                         !.log = Bump(@, "save_key")]]
           ELSE /\ fs' = FsSaveKey(fs, f.private_key, name)
                /\ db' = db
                /\ call' = [call EXCEPT ![p] =
                               [@ EXCEPT !.pc = "save_cert",
                                         !.key_id = NameId(name),
                                         !.log = Bump(@, "save_key")]]
    /\ UNCHANGED <<backend, challengesStore, calls, garbled, api>>

(***************************************************************************)
(* Lines 77-80: save_cert with the whole missing list, the issued bundle,  *)
(* the response.                                                           *)
(***************************************************************************)
\* faulty variant: only the primary subject is saved and reported
IssuedPrimaryOnly(missing) == <<Head(missing)>>

\* the domain list handed to save_cert and put in the issued bundle
IssuedDomains(missing) == missing

SaveCert(p) ==
    /\ call[p].pc = "save_cert"
    /\ LET f == call[p]
           domains == IssuedDomains(f.missing)
           issued_cert == IssuedCert(key_to_pem(f.private_key), f.certificate, domains)
           returned == [f EXCEPT !.pc = "returned",
                                 !.result = "response",
                                 !.response = createExistingResponse(f.existing, <<issued_cert>>),
                                 !.log = Bump(@, "save_cert")]
       IN  IF backend = "sqlite"
           THEN /\ db' = SqliteSaveCert(db, f.key_id[2], f.certificate, domains)
                /\ fs' = fs
                /\ call' = [call EXCEPT ![p] =
                               [returned EXCEPT !.store1 = [db |-> db', fs |-> fs]]]
           ELSE IF FsSaveCertFails(fs, f.key_id[3])
           THEN /\ UNCHANGED <<db, fs>>
                /\ call' = [call EXCEPT ![p] =
                               [f EXCEPT !.pc = "raised", !.result = "FileNotFoundError",
                                         !.log = Bump(@, "save_cert")]]
           ELSE /\ fs' = FsSaveCert(fs, f.key_id[3], f.certificate, domains)
                /\ db' = db
                /\ call' = [call EXCEPT ![p] =
                               [returned EXCEPT !.store1 = [db |-> db, fs |-> fs']]]
    /\ UNCHANGED <<backend, challengesStore, calls, garbled, api>>


(***************************************************************************)
(* The environment of the store: the bytes of one stored key or            *)
(* certificate are damaged (a truncated file, a bad BLOB).  This is the    *)
(* state FilesystemKeyStore.get_cert's two `except ValueError` guard.      *)
(***************************************************************************)
\* Damage happens between calls.  Between its lookups and save_key a call
\* does not touch the store, so damage done meanwhile is damage done by the
\* time the next call looks; a store damaged while a call is writing it is
\* not what a call is answerable for.
StoreInUse(p) == ~Finished(p)

Garble ==
    /\ garbled < MaxGarbled
    /\ \A p \in Procs : ~StoreInUse(p)
    /\ garbled' = garbled + 1
    /\ IF backend = "sqlite"
       THEN /\ \E table \in {"private_keys", "certificates"} :
               \E i \in 1..Len(db[table]) :
                  /\ table = "private_keys" => db.private_keys[i].name # AcmeKeyNameSql
                  /\ db[table][i].content # Garbage
                  /\ db' = [db EXCEPT ![table][i].content = Garbage]
            /\ fs' = fs
       ELSE /\ \E dir \in {"keys", "certs"}, name \in Domains :
                  /\ fs[dir][name] \notin {NoFile, Garbage}
                  /\ fs' = [fs EXCEPT ![dir][name] = Garbage]
            /\ db' = db
    /\ UNCHANGED <<backend, challengesStore, call, calls, api>>

(***************************************************************************)
(* One caller driving the orchestrator, call after call.                   *)
(***************************************************************************)
Callers == {"p1"}

Step(p) ==
    \/ \E host \in HostLists : ObtainCert(p, host)
    \/ CreateOrder(p)
    \/ Publish(p)
    \/ Verify(p)
    \/ StartPoll(p)
    \/ PollRound(p)
    \/ Finalize(p)
    \/ ValidityPoll(p)
    \/ SaveKey(p)
    \/ SaveCert(p)

Next ==
    \/ \E p \in Callers : Step(p)
    \/ Garble

Spec == Init /\ [][Next]_vars


(***************************************************************************)
(* One call of one caller, scheduled fairly: obtainCert is sequential      *)
(* blocking code, so a call that can take its next step takes it.          *)
(***************************************************************************)
FirstCall(p, host) == calls[p] = 0 /\ ObtainCert(p, host)

FairStep(p) ==
    \/ \E host \in HostLists : FirstCall(p, host)
    \/ CreateOrder(p)
    \/ Publish(p)
    \/ Verify(p)
    \/ StartPoll(p)
    \/ PollRound(p)
    \/ Finalize(p)
    \/ ValidityPoll(p)
    \/ SaveKey(p)
    \/ SaveCert(p)

FairNext ==
    \/ \E p \in Callers : FairStep(p)
    \/ Garble

FairSpec == Init /\ [][FairNext]_vars /\ WF_vars(\E p \in Callers : FairStep(p))

(***************************************************************************)
(* Two callers running obtainCert at the same time over one filesystem     *)
(* store (two request threads, or two processes over one base_dir).  From  *)
(* its lookups to the refresh that shows the order valid a call touches    *)
(* nothing the other call reads, so what the two do to each other is       *)
(* decided by how their save_key and save_cert calls interleave.  The      *)
(* behaviours start where both calls, having found all their hosts         *)
(* missing in the store as constructed, hold their certificate (line 75)   *)
(* and have yet to save.                                                    *)
(***************************************************************************)
\* the frame of the first call of p for `host`, none of it stored, with no
\* challenge outstanding and the first refresh showing the order valid
IssuingFrame(p, host) ==
    [IdleFrame EXCEPT !.pc = "save_key",
                      !.host = host,
                      !.missing = MissingFrom(host, <<>>),
                      !.private_key = EcKey(<<p, 1>>),
                      !.order_no = <<p, 1>>,
                      !.order_domains = host,
                      !.poll = "confirmed",
                      !.csr = create_csr(EcKey(<<p, 1>>), Head(host), Tail(host)),
                      !.count = DefaultCount,
                      !.depth = 1,
                      !.finalizes = 1,
                      !.refreshes = 1,
                      !.status = "valid",
                      !.certificate = Cert(<<p, 1>>),
                      !.log = {"create_order", "finalize", "refresh", "get_certificate"}]

ConcInit ==
    /\ backend = "filesystem"
    /\ db = SqliteInit
    /\ fs = FsInit
    /\ challengesStore = {}
    /\ \E hosts \in [Procs -> HostLists] :
          call = [p \in Procs |-> IssuingFrame(p, hosts[p])]
    /\ calls = [p \in Procs |-> 1]
    /\ garbled = 0
    /\ api = NoApi

ConcNext == \E p \in Procs : SaveKey(p) \/ SaveCert(p)

ConcSpec == ConcInit /\ [][ConcNext]_vars

(***************************************************************************)
(* The KeyStore driven directly through its contract: any sequence of      *)
(* save_key and save_cert calls, on either backend.                        *)
(***************************************************************************)
ApiKeys == {EcKey(<<"api", 1>>), EcKey(<<"api", 2>>)}
ApiCerts == {Cert(<<"api", 1>>), Cert(<<"api", 2>>)}

\* the key ids a caller can hold: sqlite row ids, filesystem key names
ApiKeyIds ==
    IF backend = "sqlite"
    THEN {RowId(i) : i \in 1..Len(db.private_keys)}
    ELSE {NameId(n) : n \in FileNames}

ApiSaveKey(key, name) ==
    /\ api.ops < MaxOps
    /\ IF backend = "sqlite"
       THEN /\ db' = SqliteSaveKey(db, key, name)
            /\ fs' = fs
            /\ api' = [api EXCEPT !.ops = @ + 1, !.last = "save_key", !.key = key,
                                  !.key_id = RowId(SqliteNextKeyId(db)), !.roundtrip = FALSE]
       ELSE /\ fs' = FsSaveKey(fs, key, name)
            /\ db' = db
            /\ api' = [api EXCEPT !.ops = @ + 1, !.last = "save_key", !.key = key,
                                  !.key_id = NameId(name), !.roundtrip = FALSE]
    /\ UNCHANGED <<backend, challengesStore, call, calls, garbled>>

ApiSaveCert(key_id, cert, domains) ==
    /\ api.ops < MaxOps
    /\ key_id \in ApiKeyIds
    \* a missing key file raises before anything is written
    /\ backend = "filesystem" => ~FsSaveCertFails(fs, key_id[3])
    /\ IF backend = "sqlite"
       THEN /\ db' = SqliteSaveCert(db, key_id[2], cert, domains)
            /\ fs' = fs
       ELSE /\ fs' = FsSaveCert(fs, key_id[3], cert, domains)
            /\ db' = db
    /\ api' = [api EXCEPT !.ops = @ + 1,
                          !.last = "save_cert",
                          !.roundtrip = (api.last = "save_key" /\ key_id = api.key_id),
                          !.cert = cert,
                          !.domains = domains,
                          !.latest = [d \in Domains |->
                                         IF d \in Range(domains) THEN cert ELSE @[d]]]
    /\ UNCHANGED <<backend, challengesStore, call, calls, garbled>>

StoreNext ==
    \/ \E key \in ApiKeys, name \in Domains : ApiSaveKey(key, name)
    \/ \E key_id \in ApiKeyIds, cert \in ApiCerts, domains \in HostLists :
          ApiSaveCert(key_id, cert, domains)

StoreSpec == Init /\ [][StoreNext]_vars

(***************************************************************************)
(* Construction of a KeyStore: _init_account_key over storage that starts  *)
(* empty, again and again, with save_key and save_cert calls in between.   *)
(***************************************************************************)
\* the tables right after CREATE TABLE IF NOT EXISTS on a new database
EmptySqlite == [private_keys |-> <<>>, certificates |-> <<>>, ssl_domains |-> <<>>]

\* the keys and certs directories right after makedirs
EmptyFs == [keys |-> [n \in FileNames |-> NoFile], certs |-> [n \in FileNames |-> NoFile]]

\* faulty variant: the stored account key is never found
AlwaysGenerate(found) == TRUE

\* `if not account_key_data` / `if self.account_key is None`
NoAccountKey(found) == found = NoValue

\* SELECT content FROM private_keys WHERE name = ? ... fetchone(): the
\* content of any row of that name, or NoValue when there is none
SqliteAccountKeyData(d) ==
    LET rows == {i \in 1..Len(d.private_keys) : d.private_keys[i].name = AcmeKeyNameSql}
    IN  IF rows = {} THEN {NoValue} ELSE {d.private_keys[i].content : i \in rows}

\* SqliteKeyStore._init_account_key: the possible (storage, account_key)
\* outcomes, fresh being the key gen_key_rsa would make
SqliteInitAccountKey(d, fresh) ==
    {IF NoAccountKey(data)
     THEN [db |-> SqliteSaveKey(d, fresh, AcmeKeyNameSql), account_key |-> fresh,
           generated |-> 1]
     ELSE [db |-> d, account_key |-> key_from_der(data), generated |-> 0] :
        data \in SqliteAccountKeyData(d)}

\* FilesystemKeyStore.find_key
FsFindKey(f, name) == IF f.keys[name] # NoFile THEN key_from_pem(f.keys[name]) ELSE NoValue

\* FilesystemKeyStore._init_account_key
FsInitAccountKey(f, fresh) ==
    LET found == FsFindKey(f, AcmeKeyNameFs)
    IN  IF NoAccountKey(found)
        THEN [fs |-> FsSaveKey(f, fresh, AcmeKeyNameFs), account_key |-> fresh,
              generated |-> 1]
        ELSE [fs |-> f, account_key |-> found, generated |-> 0]

ConstructInit ==
    /\ backend \in Backends
    /\ db = EmptySqlite
    /\ fs = EmptyFs
    /\ challengesStore = {}
    /\ call = [p \in Procs |-> IdleFrame]
    /\ calls = [p \in Procs |-> 0]
    /\ garbled = 0
    /\ api = [NoApi EXCEPT !.account_key = NoValue, !.constructions = 0, !.generated = 0]

\* KeyStore(...): a decoding failure of the stored key raises out of the
\* constructor and leaves no object
Construct ==
    /\ api.constructions < MaxConstructions
    /\ IF backend = "sqlite"
       THEN \E out \in SqliteInitAccountKey(db, RsaKey(api.generated)) :
               /\ out.account_key # ValueError
               /\ db' = out.db
               /\ fs' = fs
               /\ api' = [api EXCEPT !.constructions = @ + 1,
                                     !.account_key = out.account_key,
                                     !.generated = @ + out.generated]
       ELSE LET out == FsInitAccountKey(fs, RsaKey(api.generated))
            IN  /\ out.account_key # ValueError
                /\ fs' = out.fs
                /\ db' = db
                /\ api' = [api EXCEPT !.constructions = @ + 1,
                                      !.account_key = out.account_key,
                                      !.generated = @ + out.generated]
    /\ UNCHANGED <<backend, challengesStore, call, calls, garbled>>

\* save_key and save_cert are methods of a constructed store
Constructed == api.constructions > 0

ConstructNext ==
    \/ Construct
    \/ \E key \in ApiKeys, name \in Domains : Constructed /\ ApiSaveKey(key, name)
    \/ \E key_id \in ApiKeyIds, cert \in ApiCerts, domains \in HostLists :
          Constructed /\ ApiSaveCert(key_id, cert, domains)

ConstructSpec == ConstructInit /\ [][ConstructNext]_vars

(***************************************************************************)
(* createExistingResponse as a function of its argument: the existing map  *)
(* is any map the lookups of one backend can produce, in any order.        *)
(***************************************************************************)
LookupDomains == {"a.com", "b.com", "c.com"}

\* sqlite: the rows found are rows of two certificates
SqliteFound == {Present(1, EcKey(<<"api", 1>>), Cert(<<"api", 1>>)),
                Present(2, EcKey(<<"api", 2>>), Cert(<<"api", 2>>))}

\* filesystem: the id is the domain looked up
FsFound(h) == {Present(h, EcKey(<<"api", n>>), Cert(<<"api", n>>)) : n \in {1, 2}}

ExistingMaps(b) ==
    UNION {{[i \in 1..Len(hs) |-> [k |-> hs[i], v |-> rec[i]]] :
              rec \in {r \in [1..Len(hs) -> IF b = "sqlite" THEN SqliteFound
                                            ELSE UNION {FsFound(h) : h \in LookupDomains}] :
                          b = "filesystem" => \A i \in 1..Len(hs) : r[i] \in FsFound(hs[i])}} :
           hs \in UNION {{s \in [1..n -> LookupDomains] : IsInjective(s)} : n \in 1..3}}

AssembleInit ==
    /\ backend \in Backends
    /\ db = SqliteInit
    /\ fs = FsInit
    /\ challengesStore = {}
    /\ \E existing \in ExistingMaps(backend) :
          call = [p \in Procs |->
                     IF p \in Callers
                     THEN [IdleFrame EXCEPT !.pc = "assemble", !.existing = existing]
                     ELSE IdleFrame]
    /\ calls = [p \in Procs |-> 0]
    /\ garbled = 0
    /\ api = NoApi

Assemble(p) ==
    /\ call[p].pc = "assemble"
    /\ call' = [call EXCEPT ![p] =
                   [@ EXCEPT !.pc = "returned",
                             !.result = "response",
                             !.response = createExistingResponse(call[p].existing, <<>>)]]
    /\ UNCHANGED <<backend, db, fs, challengesStore, calls, garbled, api>>

AssembleNext == \E p \in Callers : Assemble(p)

AssembleSpec == AssembleInit /\ [][AssembleNext]_vars


(***************************************************************************)
(* Claims.                                                                 *)
(***************************************************************************)
Frame(p) == call[p]

\* every requested domain resolved in the lookups of the call
AllResolved(f) == f.host # <<>> /\ Range(f.host) \subseteq DictKeys(f.existing)

BundleHosts(bundles) == UNION {Range(bundles[i].hosts) : i \in 1..Len(bundles)}

\* the tokens the call has published
PublishedBy(p) == {pair \in challengesStore : pair[1][2] = <<p, calls[p]>>}

\* C1: a call all of whose domains resolve performs no operation on the
\* protocol client, writes neither to the KeyStore nor to the challenge
\* publication store, and returns no issued bundle and existing bundles
\* that cover the requested domains.
C1_AllStoredNoWork ==
    \A p \in Callers :
        AllResolved(Frame(p)) =>
            /\ Frame(p).pc = "returned"
            /\ Frame(p).log = {}
            /\ PublishedBy(p) = {}
            /\ Frame(p).response.issued = <<>>
            /\ BundleHosts(Frame(p).response.existing) = Range(Frame(p).host)

C1_Witness ==
    \E p \in Callers :
        /\ AllResolved(Frame(p))
        /\ Frame(p).pc = "returned"
        /\ Len(Frame(p).host) = 2
        /\ Len(Frame(p).response.existing) >= 1

\* C2: the validity poll never refreshes more than 5 times, and a call
\* that ends after a refresh showing "processing" has refreshed exactly 5
\* times and failed with the order error.
C2_ValidityPollBounded ==
    \A p \in Callers :
        /\ Frame(p).refreshes <= DefaultCount
        /\ (Finished(p) /\ Frame(p).status = "processing") =>
               (Frame(p).refreshes = DefaultCount /\ Frame(p).result = "error")


\* the domains of the call's host list that resolved in the store the call
\* began with
ResolvedAtStart(f) ==
    {h \in Range(f.host) : None \notin get_cert(backend, f.store0.db, f.store0.fs, h)}

CsrNames(csr) == {csr.subject} \cup Range(csr.alt_names)

\* what one save_cert of the whole list leaves in the store, whatever damage
\* the bytes take afterwards
SavedOnce(f) ==
    IF backend = "sqlite"
    THEN /\ Len(db.certificates) = Len(f.store0.db.certificates) + 1
         /\ Len(db.private_keys) = Len(f.store0.db.private_keys) + 1
         /\ SubSeq(db.ssl_domains, Len(f.store0.db.ssl_domains) + 1, Len(db.ssl_domains))
                = [i \in 1..Len(f.missing) |->
                      [domain |-> f.missing[i], certificate_id |-> Len(db.certificates)]]
    ELSE \A d \in Range(f.missing) :
            /\ fs.certs[d] \in {cert_to_pem(f.certificate), Garbage}
            /\ fs.keys[d] \in {key_to_pem(f.private_key), Garbage}

\* C3: when every requested domain is missing and the order becomes valid,
\* the response holds exactly one issued bundle whose domain list is the
\* requested list, the CSR names the first requested domain as subject and
\* the rest as alternative names, and one save_cert stored the whole list.
C3_OneBundleForAllMissing ==
    \A p \in Callers :
        (Frame(p).pc = "returned" /\ Frame(p).existing = <<>>) =>
            /\ Frame(p).missing = Frame(p).host
            /\ Len(Frame(p).response.issued) = 1
            /\ Frame(p).response.issued[1].hosts = Frame(p).host
            /\ Frame(p).response.issued[1].cert = Frame(p).certificate
            /\ Frame(p).response.existing = <<>>
            /\ Frame(p).csr.subject = Head(Frame(p).host)
            /\ Frame(p).csr.alt_names = Tail(Frame(p).host)
            /\ SavedOnce(Frame(p))

C3_Witness ==
    \E p \in Callers :
        /\ Frame(p).pc = "returned"
        /\ Frame(p).existing = <<>>
        /\ Frame(p).host = <<"b.com", "a.com">>
        /\ Frame(p).status = "valid"

\* C4: a successful call for stored and unstored domains splits them: the
\* domains that resolved at the start are exactly those of the existing
\* bundles, the others are exactly those of the single issued bundle, and
\* the order and the CSR name only the others.
C4_MixedRequestPartition ==
    \A p \in Callers :
        (/\ Frame(p).pc = "returned"
         /\ ResolvedAtStart(Frame(p)) # {}
         /\ ResolvedAtStart(Frame(p)) # Range(Frame(p).host)) =>
            /\ Len(Frame(p).response.issued) = 1
            /\ BundleHosts(Frame(p).response.existing) = ResolvedAtStart(Frame(p))
            /\ BundleHosts(Frame(p).response.issued)
                   = Range(Frame(p).host) \ ResolvedAtStart(Frame(p))
            /\ Range(Frame(p).order_domains)
                   = Range(Frame(p).host) \ ResolvedAtStart(Frame(p))
            /\ CsrNames(Frame(p).csr) = Range(Frame(p).host) \ ResolvedAtStart(Frame(p))

C4_Witness ==
    \E p \in Callers :
        /\ Frame(p).pc = "returned"
        /\ Frame(p).host = <<"a.com", "b.com">>
        /\ ResolvedAtStart(Frame(p)) = {"a.com"}
        /\ Len(Frame(p).response.existing) = 1
        /\ Len(Frame(p).response.issued) = 1

(***************************************************************************)
(* C5.                                                                     *)
(***************************************************************************)
\* a bundle with its domain list read as a set
AsSet(bundle) == [key |-> bundle.key, cert |-> bundle.cert, hosts |-> Range(bundle.hosts)]

BundleSet(bundles) == {AsSet(bundles[i]) : i \in 1..Len(bundles)}

Orderings(n) == {q \in [1..n -> 1..n] : IsInjective(q)}

Reordered(dict, q) == [i \in 1..Len(dict) |-> dict[q[i]]]

IdsOf(existing) == {existing[i].v.id : i \in 1..Len(existing)}

HostsOfId(existing, id) == {existing[i].k : i \in {j \in 1..Len(existing) : existing[j].v.id = id}}

\* C5: the existing bundles are one per certificate identifier, each with
\* exactly the looked-up domains of that identifier (none twice) and with
\* that certificate's key and certificate as text, and they are the same
\* set of bundles for every order of the lookups.
C5_GroupedByIdentifier ==
    \A p \in Callers :
        (Frame(p).pc = "returned" /\ Frame(p).missing = <<>> /\ Frame(p).existing # <<>>) =>
            LET existing == Frame(p).existing
                bundles == Frame(p).response.existing
            IN  /\ Len(bundles) = Cardinality(IdsOf(existing))
                /\ \A id \in IdsOf(existing) :
                      \E i \in 1..Len(bundles) :
                          /\ Range(bundles[i].hosts) = HostsOfId(existing, id)
                          /\ IsInjective(bundles[i].hosts)
                          /\ \A j \in 1..Len(existing) :
                                existing[j].v.id = id =>
                                    /\ bundles[i].key = pem_text(key_to_pem(existing[j].v.key))
                                    /\ bundles[i].cert = pem_text(cert_to_pem(existing[j].v.cert))
                /\ \A q \in Orderings(Len(existing)) :
                      BundleSet(createExistingResponse(Reordered(existing, q), <<>>).existing)
                          = BundleSet(bundles)

C5_Witness ==
    \E p \in Callers :
        /\ Frame(p).pc = "returned"
        /\ Len(Frame(p).existing) = 3
        /\ Len(Frame(p).response.existing) = 2
        /\ Frame(p).existing[1].v.id = Frame(p).existing[3].v.id


(***************************************************************************)
(* C6 - C9: the two backends.                                              *)
(***************************************************************************)
\* every entry of the existing map carries the same certificate
OneCertificate(existing) ==
    Cardinality({existing[i].v.cert : i \in 1..Len(existing)}) = 1

\* C6: on either backend, a fully stored request whose domains share one
\* stored certificate gets exactly one existing bundle, listing them all.
C6_SharedCertificateOneBundle ==
    \A p \in Callers :
        (/\ Frame(p).pc = "returned"
         /\ AllResolved(Frame(p))
         /\ OneCertificate(Frame(p).existing)) =>
            /\ Len(Frame(p).response.existing) = 1
            /\ Range(Frame(p).response.existing[1].hosts) = Range(Frame(p).host)

\* the same, of the relational backend alone
C6_SqliteOnly == backend = "sqlite" => C6_SharedCertificateOneBundle

\* C7: right after save_key(k) and save_cert(key_id, cert, domains) with
\* the id save_key returned, get_cert of every domain of the list is
\* present with key k and certificate cert.
C7_RoundTrip ==
    api.roundtrip =>
        \A d \in Range(api.domains) :
            \A found \in get_cert(backend, db, fs, d) :
                /\ found.tag = "present"
                /\ found.key = api.key
                /\ found.cert = api.cert

\* the same, of the filesystem backend alone
C7_FilesystemOnly == backend = "filesystem" => C7_RoundTrip

\* C8: after any sequence of save_cert calls, whatever get_cert of a domain
\* returns is the certificate of the latest save_cert that listed the
\* domain: no earlier certificate of the domain can still be found.
C8_LastWriteWins ==
    \A d \in Domains :
        api.latest[d] # NoValue =>
            \A found \in get_cert(backend, db, fs, d) :
                found.tag = "present" /\ found.cert = api.latest[d]

\* the same, of the filesystem backend alone
C8_FilesystemOnly == backend = "filesystem" => C8_LastWriteWins

\* the key or the certificate stored for the domain does not decode
Undecodable(d) ==
    IF backend = "sqlite"
    THEN \E i \in SqliteJoinRows(db, d) :
            LET c == db.certificates[db.ssl_domains[i].certificate_id]
            IN  \/ cert_from_der(c.content) = ValueError
                \/ key_from_der(db.private_keys[c.priv_id].content) = ValueError
    ELSE \/ fs.keys[d] # NoFile /\ key_from_pem(fs.keys[d]) = ValueError
         \/ fs.certs[d] # NoFile /\ cert_from_pem(fs.certs[d]) = ValueError

\* C9: get_cert of a domain whose stored key or certificate does not
\* decode is absent on both backends, and no call ends in its lookups.
C9_FailClosed ==
    /\ \A d \in Domains : Undecodable(d) => get_cert(backend, db, fs, d) = {None}
    /\ \A p \in Callers : ~(Frame(p).pc = "raised" /\ Frame(p).log = {})

\* the same, of the filesystem backend alone
C9_FilesystemOnly == backend = "filesystem" => C9_FailClosed

C9_FilesystemWitness ==
    /\ backend = "filesystem"
    /\ \E p \in Callers :
          /\ Frame(p).pc = "create_order"
          /\ \E d \in Range(Frame(p).missing) : Undecodable(d)

OrderRejected(f) == "create_order" \in f.log /\ f.order_no = NoOrigin

\* the call ended on the missing-domain path without a certificate
FailedWhileIssuing(f) ==
    /\ f.pc \in {"failed", "raised"}
    /\ f.missing # <<>>

\* C11: a call that fails on the missing-domain path (order rejected, the
\* validity poll given up, or an order status other than valid and
\* processing) hands back no response object, so none of the bundles its
\* lookups resolved is reported; and each of those three events ends the
\* call that way.
C11_FailureFailsWholeCall ==
    \A p \in Callers :
        /\ FailedWhileIssuing(Frame(p)) =>
               /\ Frame(p).result \in {"error", "ValueError", "RecursionError"}
               /\ Frame(p).response = NoResponse
        /\ OrderRejected(Frame(p)) =>
               Frame(p).pc = "raised" /\ Frame(p).result = "ValueError"
        /\ (Frame(p).refreshes > 0 /\ Frame(p).status \notin {"valid", "processing"}) =>
               Frame(p).pc = "failed" /\ Frame(p).result = "error"
        /\ (Finished(p) /\ Frame(p).status = "processing") =>
               FailedWhileIssuing(Frame(p))

C11_Witness ==
    \E p \in Callers :
        /\ Frame(p).pc = "failed"
        /\ Frame(p).status = "invalid"
        /\ Frame(p).existing # <<>>
        /\ Frame(p).missing # <<>>

(***************************************************************************)
(* C12.                                                                    *)
(***************************************************************************)
\* the account key the storage holds, NoValue when it holds none
StoredAccountKeys ==
    IF backend = "sqlite"
    THEN {key_from_der(data) : data \in SqliteAccountKeyData(db) \ {NoValue}}
    ELSE {FsFindKey(fs, AcmeKeyNameFs)} \ {NoValue}

\* C12: a construction over storage that holds the account key loads that
\* key, writes nothing and generates nothing; only the first construction,
\* over storage without one, generates a key and persists it.  Every
\* constructed store therefore exposes the first key, which is the one the
\* storage holds, and the storage right after the first construction is
\* the storage the orchestrator starts from.
C12_AccountKeyIdempotent ==
    /\ [](Constructed =>
            /\ api.generated = 1
            /\ api.account_key = RsaKey(0)
            /\ StoredAccountKeys = {RsaKey(0)})
    /\ [](api.constructions = 0 => StoredAccountKeys = {} /\ api.generated = 0)
    /\ [][api'.constructions = api.constructions + 1 =>
            IF Constructed
            THEN /\ db' = db /\ fs' = fs
                 /\ api'.generated = api.generated
                 /\ api'.account_key = api.account_key
            ELSE /\ api'.generated = 1
                 /\ api'.account_key = AccountKey
                 /\ db' = (IF backend = "sqlite" THEN SqliteInit ELSE db)
                 /\ fs' = (IF backend = "filesystem" THEN FsInit ELSE fs)]_vars

C12_Witness ==
    /\ api.constructions = 3
    /\ api.generated = 1
    /\ api.ops >= 2
    /\ StoredAccountKeys = {api.account_key}

(***************************************************************************)
(* C13.                                                                    *)
(***************************************************************************)
\* the step is the poll loop of p giving up
Aborts(p) ==
    /\ call[p].pc = "poll"
    /\ call'[p].pc = "finalize"
    /\ call'[p].poll = "timeout"

Written(f, i) ==
    <<Token(f.order_no, i), AuthorizationKey(f.order_no, i)>> \in challengesStore

\* C14: verify() is called on a challenge only once its token is written,
\* and by the time any challenge of the order has been queried, every
\* challenge of the order has been written and verified.
C14_PublicationPrecedesPolling ==
    /\ [](\A p \in Callers :
            /\ Frame(p).verified <= Frame(p).published
            /\ Frame(p).published <= Frame(p).challenges
            /\ \A i \in 1..Frame(p).verified : Written(Frame(p), i)
            /\ "query" \in Frame(p).log =>
                   /\ Frame(p).verified = Frame(p).challenges
                   /\ \A i \in 1..Frame(p).challenges : Written(Frame(p), i))
    /\ [][\A p \in Callers :
            call'[p].verified = call[p].verified + 1 =>
                /\ Written(call[p], call'[p].verified)
                /\ "query" \notin call'[p].log]_vars

C14_Witness ==
    \E p \in Callers :
        /\ Frame(p).pc = "poll"
        /\ "query" \in Frame(p).log
        /\ Frame(p).challenges = 2
        /\ Frame(p).verified = 2

(***************************************************************************)
(* C15.                                                                    *)
(***************************************************************************)
\* the poll loop of the frame has ended, one way or the other
LoopEnded(f) ==
    \/ f.poll = "confirmed" /\ f.source = <<>>
    \/ f.poll = "timeout" /\ f.clock > PollTimeout /\ f.asked >= PollRounds

\* C15: once an order has been created, finalize is called, once; at the
\* moment it is called the poll loop has ended, with every challenge
\* confirmed or timed out, and the order has not been refreshed yet; a
\* poll that timed out is followed by finalize all the same.
C15_FinalizeOnceAfterPoll ==
    /\ [](\A p \in Callers :
            /\ Frame(p).finalizes <= 1
            /\ Frame(p).pc = "finalize" =>
                   /\ LoopEnded(Frame(p))
                   /\ Frame(p).finalizes = 0
                   /\ Frame(p).refreshes = 0
            /\ Frame(p).finalizes = 1 => Frame(p).poll \in {"confirmed", "timeout"}
            /\ Frame(p).refreshes > 0 => Frame(p).finalizes = 1
            /\ Frame(p).order_no = NoOrigin => Frame(p).finalizes = 0)
    /\ \A p \in Callers : (Frame(p).order_no # NoOrigin) ~> (Frame(p).finalizes = 1)
    /\ \A p \in Callers : (Frame(p).poll = "timeout") ~> (Frame(p).finalizes = 1)

C15_Witness ==
    \E p \in Callers :
        /\ Frame(p).pc = "validity"
        /\ Frame(p).finalizes = 1
        /\ Frame(p).poll = "timeout"
        /\ Frame(p).refreshes = 0

(***************************************************************************)
(* C16.                                                                    *)
(***************************************************************************)
\* the step is one round of queries of the poll loop of p
Round(p) ==
    /\ call[p].pc = "poll"
    /\ call'[p].pc = "poll"
    /\ call'[p].parity # call[p].parity

\* C16: in a round exactly the pending challenges are queried; a pending
\* challenge leaves the pending list in that round if and only if the
\* answer to its query is True itself, the others keep their order; so
\* the pending list only shrinks and a confirmed challenge is not queried
\* again.
C16_StrictConfirmation ==
    [][\A p \in Callers :
          Round(p) =>
             LET before == call[p].source
                 after == call'[p].source
                 answer == call'[p].answers
                 kept(c) == answer[c] # "True"
             IN  /\ DOMAIN answer = Range(before)
                 /\ after = SelectSeq(before, kept)
                 /\ Range(after) \subseteq Range(before)
                 /\ \A c \in Range(before) :
                        c \notin Range(after) <=> answer[c] = "True"]_vars

C16_Witness ==
    \E p \in Callers :
        /\ Frame(p).pc = "poll"
        /\ Frame(p).asked = 2
        /\ Frame(p).source = <<2>>
        /\ Frame(p).answers = (2 :> "None")

(***************************************************************************)
(* C17.                                                                    *)
(***************************************************************************)
\* the step is a refresh by p that shows a status the poll does not wait on
RefreshShowsUnexpected(p) ==
    /\ call[p].pc = "validity"
    /\ call'[p].refreshes = call[p].refreshes + 1
    /\ call'[p].status \notin {"valid", "processing"}

\* C17: the refresh that shows a status other than valid and processing
\* ends the call with the order error: the certificate is not fetched,
\* the KeyStore is not written, and that call takes no step after it.
C17_UnexpectedStatusFailsAtOnce ==
    [][\A p \in Callers :
          /\ RefreshShowsUnexpected(p) =>
                /\ call'[p].pc = "failed"
                /\ call'[p].result = "error"
                /\ call'[p].log \cap {"get_certificate", "save_key", "save_cert"} = {}
                /\ db' = db
                /\ fs' = fs
          /\ (call[p].pc = "failed" /\ call[p].status \notin {"valid", "processing"}) =>
                \/ call'[p] = call[p]
                \/ calls'[p] = calls[p] + 1]_vars

C17_Witness ==
    \E p \in Callers :
        /\ Frame(p).pc = "failed"
        /\ Frame(p).status = "ready"
        /\ Frame(p).refreshes = 2

(***************************************************************************)
(* C18.                                                                    *)
(***************************************************************************)
\* both callers have issued and returned
BothIssued ==
    \A p \in Procs : call[p].pc = "returned" /\ "save_cert" \in call[p].log

\* the domains both calls found missing
SharedMissing == Range(call["p1"].missing) \cap Range(call["p2"].missing)

\* the stored key and the stored certificate come from the same issuance
SameIssuance(out) == out # None /\ out.key[2] = out.cert[2]

\* C18: when two concurrent calls that both issued for a domain have
\* returned, the filesystem store holds for that domain a key and a
\* certificate of the same issuance.
C18_ConcurrentKeyMatchesCert ==
    BothIssued =>
        \A d \in SharedMissing : \A out \in FsGetCert(fs, d) : SameIssuance(out)

\* the frame concurrent behaviours start from is a frame a call reaches
C18_StartReached ==
    \E host \in HostLists : Len(host) = 2 /\ call["p1"] = IssuingFrame("p1", host)

(***************************************************************************)
(* C19.                                                                    *)
(***************************************************************************)
\* the step is a call of p returning its response
Returns(p) == call[p].pc # "returned" /\ call'[p].pc = "returned"

\* the step is p calling obtainCert again, with the host list of the call
\* that has just returned, on the store as that call left it
CallsAgain(p) ==
    /\ call[p].pc = "returned"
    /\ calls'[p] = calls[p] + 1
    /\ call'[p].host = call[p].host
    /\ call[p].store1 = [db |-> db, fs |-> fs]

\* C19: when a call returns its response, every domain it was asked for
\* is present in the store, on either backend, whichever row or file the
\* lookup reads; the same request made again at once finds nothing
\* missing, touches neither the protocol client nor the store, and
\* returns no issued bundle.
C19_IssuanceIdempotent ==
    [][\A p \in Callers :
          /\ Returns(p) =>
                \A d \in Range(call'[p].host) :
                    \A out \in get_cert(backend', db', fs', d) : out.tag = "present"
          /\ CallsAgain(p) =>
                /\ call'[p].pc = "returned"
                /\ call'[p].missing = <<>>
                /\ call'[p].log = {}
                /\ call'[p].response.issued = <<>>
                /\ BundleHosts(call'[p].response.existing) = Range(call[p].host)
                /\ db' = db /\ fs' = fs]_vars

C19_Witness ==
    \E p \in Callers :
        /\ calls[p] = 2
        /\ Frame(p).pc = "returned"
        /\ Frame(p).log = {}
        /\ Len(Frame(p).host) = 2
        /\ Frame(p).store0 = [db |-> db, fs |-> fs]
        /\ \A d \in Range(Frame(p).host) :
               \A out \in get_cert(backend, db, fs, d) :
                   out.tag = "present" /\ out.cert = Cert(<<p, 1>>)

(***************************************************************************)
(* C20.                                                                    *)
(***************************************************************************)
\* the step is a call of p ending without a response
Fails(p) ==
    /\ call[p].pc \notin {"failed", "raised"}
    /\ call'[p].pc \in {"failed", "raised"}

\* the step is a write to the KeyStore by the call of p
Saves(p) == call[p].pc \in {"save_key", "save_cert"} /\ call'[p] # call[p]

\* C20: a call writes to the KeyStore only in save_key and save_cert, and
\* it gets to them only through the refresh that shows the order valid;
\* so when a call ends without a response the store is what it was when
\* the call began, and every lookup answers as it did then.
C20_FailureLeavesStoreUnchanged ==
    /\ [](\A p \in Callers :
            Frame(p).log \cap {"save_key", "save_cert"} # {} =>
                /\ Frame(p).status = "valid"
                /\ "get_certificate" \in Frame(p).log)
    /\ [][\A p \in Callers :
            /\ Fails(p) =>
                  /\ call'[p].log \cap {"save_key", "save_cert"} = {}
                  /\ [db |-> db', fs |-> fs'] = call'[p].store0
                  /\ \A d \in Domains :
                         get_cert(backend', db', fs', d)
                             = get_cert(backend, call'[p].store0.db, call'[p].store0.fs, d)
            /\ (calls'[p] = calls[p] /\ ~Saves(p) /\ garbled' = garbled) =>
                  db' = db /\ fs' = fs]_vars

C20_Witness ==
    \E p \in Callers :
        /\ Frame(p).pc = "failed"
        /\ Frame(p).refreshes >= 1
        /\ Frame(p).existing # <<>>
        /\ Frame(p).store0 = [db |-> db, fs |-> fs]
        /\ Frame(p).store0 # [db |-> SqliteInit, fs |-> FsInit]

=============================================================================
